---- MODULE Spec2Model ----
(***************************************************************************)
(* Personal finance chatbot (src/app.py): CSV ingest, the session's        *)
(* transaction list, the budget summary and spending insights reports and  *)
(* the keyword router of the chat box.                                     *)
(*                                                                         *)
(* Dates are day numbers counted from 2025-07-31 (2025-08-01 is day 1).    *)
(* Amounts are whole rupees.  A text is a sequence of one-character        *)
(* strings.  NaN stands for a missing cell of a DataFrame.                 *)
(***************************************************************************)
EXTENDS Integers, Sequences, FiniteSets, TLC

VARIABLES
    uploaded,       \* file_uploader value read by the run that initialised the session
    use_sample,     \* checkbox value at that run
    initialised,    \* 'transactions' in st.session_state
    transactions,   \* st.session_state['transactions'], a sequence of rows
    messages,       \* st.session_state['messages']
    summary,        \* Budget tab content of the last run
    insights,       \* Insights tab content of the last run
    steps,          \* form submissions so far
    parsed,         \* outcome of parse_transactions on `uploaded`
    user_type,      \* sidebar profile: 'Student' or 'Professional'
    msg,            \* text handed to local_ai_response
    routed          \* generator local_ai_response selected for msg

vars == <<uploaded, use_sample, initialised, transactions, messages,
          summary, insights, steps, parsed, user_type, msg, routed>>

-----------------------------------------------------------------------------
(* Bounds *)

MaxRows == 2            \* rows of a raw table handed to parse_transactions
MaxSteps == 2           \* form submissions in one session
MaxFragments == 2       \* fragments a routed text is built from

-----------------------------------------------------------------------------
(* Cells and dates *)

NaN == "NaN"
None == "None"

\* Calendar dates the model uses, as day numbers.
DayOf ==
    [s \in {"2025-08-01", "2025-08-02", "2025-08-03", "2025-08-05", "2025-08-07",
            "2025-08-10", "2025-08-15", "2025-08-20", "2025-09-19", "2025-06-21"} |->
        CASE s = "2025-08-01" -> 1
          [] s = "2025-08-02" -> 2
          [] s = "2025-08-03" -> 3
          [] s = "2025-08-05" -> 5
          [] s = "2025-08-07" -> 7
          [] s = "2025-08-10" -> 10
          [] s = "2025-08-15" -> 15
          [] s = "2025-08-20" -> 20
          [] s = "2025-09-19" -> 50
          [] s = "2025-06-21" -> 0 - 40]

\* pd.to_datetime on one cell, errors='raise': a missing cell becomes NaT, a
\* date string its day, anything else raises.
to_datetime(cell) ==
    IF cell = NaN THEN [kind |-> "NaT", day |-> 0]
    ELSE IF cell \in DOMAIN DayOf THEN [kind |-> "ok", day |-> DayOf[cell]]
    ELSE [kind |-> "raise", day |-> 0]

\* pd.to_numeric on one cell, errors='coerce': what is no number becomes NaN.
to_numeric(cell) ==
    CASE cell = "100" -> [kind |-> "ok", value |-> 100]
      [] cell = "-40" -> [kind |-> "ok", value |-> 0 - 40]
      [] cell = "0"   -> [kind |-> "ok", value |-> 0]
      [] OTHER        -> [kind |-> "NaN", value |-> 0]

-----------------------------------------------------------------------------
(* load_sample_transactions *)

Row(d, c, a, desc) == [date |-> d, category |-> c, amount |-> a, description |-> desc]

load_sample_transactions ==
    << Row(to_datetime("2025-08-01").day, "Food", 250, "Lunch"),
       Row(to_datetime("2025-08-02").day, "Transport", 120, "Metro"),
       Row(to_datetime("2025-08-03").day, "Groceries", 1500, "Weekly groceries"),
       Row(to_datetime("2025-08-05").day, "Entertainment", 600, "Movie + snacks"),
       Row(to_datetime("2025-08-07").day, "Subscriptions", 299, "Music"),
       Row(to_datetime("2025-08-10").day, "Bills", 2200, "Electricity"),
       Row(to_datetime("2025-08-15").day, "Savings", 0 - 5000, "Monthly saving transfer"),
       Row(to_datetime("2025-08-20").day, "Investment", 0 - 2000, "SIP") >>

-----------------------------------------------------------------------------
(* parse_transactions *)

AllColumns == {"date", "category", "amount", "description"}
required == {"date", "category", "amount"}

\* Raw cell texts of an uploaded CSV; "" is an empty cell.
DateCells == {"2025-08-01", "", "notadate"}
CategoryCells == {"Food", ""}
AmountCells == {"100", "-40", "abc"}

RawRows == [date : DateCells, category : CategoryCells, amount : AmountCells,
            description : {"x"}]

SeqsUpTo(S, n) == UNION {[1..k -> S] : k \in 0..n}

\* pd.read_csv on one cell: an empty field is read as NaN; a column the file
\* does not have gives no cell at all (NaN once rows are concatenated).
read_cell(file, row, col) ==
    IF col \notin file.columns \/ row[col] = "" THEN NaN ELSE row[col]

Raise(e) == [ok |-> FALSE, error |-> e, df |-> <<>>]
Return(df) == [ok |-> TRUE, error |-> None, df |-> df]
\* No call of parse_transactions has returned yet.
Pending == [ok |-> FALSE, error |-> "pending", df |-> <<>>]

\* df.dropna(subset=['amount','date']) over the coerced rows, order kept.
RECURSIVE dropna(_, _)
dropna(file, rows) ==
    IF rows = <<>> THEN <<>>
    ELSE LET r == Head(rows)
             d == to_datetime(read_cell(file, r, "date"))
             a == to_numeric(read_cell(file, r, "amount"))
             rest == dropna(file, Tail(rows))
         IN  IF d.kind = "ok" /\ a.kind = "ok"
             THEN <<Row(d.day, read_cell(file, r, "category"), a.value,
                        read_cell(file, r, "description"))>> \o rest
             ELSE rest

\* Mutant: the required-columns check left out.
parse_transactions_unchecked(file) ==
    IF ~file.readable THEN Raise("ParserError")
    ELSE IF \E i \in 1..Len(file.rows) :
                to_datetime(read_cell(file, file.rows[i], "date")).kind = "raise"
         THEN Raise("DateParseError")
    ELSE Return(dropna(file, file.rows))

parse_transactions(file) ==
    IF ~file.readable THEN Raise("ParserError")
    ELSE IF ~(required \subseteq file.columns) THEN Raise("ValueError")
    ELSE IF \E i \in 1..Len(file.rows) :
                to_datetime(read_cell(file, file.rows[i], "date")).kind = "raise"
         THEN Raise("DateParseError")
    ELSE Return(dropna(file, file.rows))

File(readable, columns, rows) ==
    [present |-> TRUE, readable |-> readable, columns |-> columns, rows |-> rows]
\* st.file_uploader with nothing uploaded returns None.
NoFile == [present |-> FALSE, readable |-> FALSE, columns |-> {}, rows |-> <<>>]

ColumnSets == {AllColumns} \cup {AllColumns \ {c} : c \in AllColumns}

\* Files handed to parse_transactions on its own.
Files ==
    {File(TRUE, cs, rs) : cs \in ColumnSets, rs \in SeqsUpTo(RawRows, MaxRows)}
        \cup {File(FALSE, {}, <<>>)}

-----------------------------------------------------------------------------
(* Aggregation helpers: pandas sum, groupby, sort_values, head *)

RECURSIVE SumAmounts(_)
SumAmounts(tx) == IF tx = <<>> THEN 0 ELSE Head(tx).amount + SumAmounts(Tail(tx))

Abs(x) == IF x < 0 THEN 0 - x ELSE x

RECURSIVE SumAbsAmounts(_)
SumAbsAmounts(tx) ==
    IF tx = <<>> THEN 0 ELSE Abs(Head(tx).amount) + SumAbsAmounts(Tail(tx))

Positive(r) == r.amount > 0
Negative(r) == r.amount < 0

Dates(tx) == {tx[i].date : i \in 1..Len(tx)}
MaxDate(tx) == CHOOSE d \in Dates(tx) : \A e \in Dates(tx) : e <= d
MinDate(tx) == CHOOSE d \in Dates(tx) : \A e \in Dates(tx) : d <= e

\* df.groupby('category')['amount'].sum(): one signed sum per category label;
\* groupby leaves out the rows whose key is NaN (dropna=True is the default).
groupby_sum(tx) ==
    [c \in {tx[i].category : i \in 1..Len(tx)} \ {NaN} |->
        LET InC(r) == r.category = c IN SumAmounts(SelectSeq(tx, InC))]

\* series.abs()
abs_series(s) == [c \in DOMAIN s |-> Abs(s[c])]

\* series.sort_values(ascending=False).head(k): every order the sort may give,
\* labels of equal value in any order.
RECURSIVE sort_desc_head(_, _, _)
sort_desc_head(s, labels, k) ==
    IF k = 0 \/ labels = {} THEN {<<>>}
    ELSE LET best == {c \in labels : \A e \in labels : s[e] <= s[c]}
         IN  UNION {{<<c>> \o rest : rest \in sort_desc_head(s, labels \ {c}, k - 1)} :
                        c \in best}

\* Nearest integer to n / d for n >= 0, d > 0, ties to even (round, format).
RoundDiv(n, d) ==
    LET q == n \div d
        r == n % d
    IN  IF 2 * r < d THEN q
        ELSE IF 2 * r > d THEN q + 1
        ELSE IF q % 2 = 0 THEN q ELSE q + 1

Max(a, b) == IF a >= b THEN a ELSE b

-----------------------------------------------------------------------------
(* summarize_budget *)

WindowDays == 30
TopExpenseCount == 5
DaysPerMonth == 30
ReductionPercent == 90

\* Mutant: the comparison of the window turned round.
recent_window_reversed(tx) ==
    LET InWindow(r) == r.date <= MaxDate(tx) - WindowDays
        recent == SelectSeq(tx, InWindow)
    IN  IF recent = <<>> THEN tx ELSE recent

\* tx[tx['date'] >= tx['date'].max() - pd.Timedelta(days=30)], the whole table
\* if that is empty.
recent_window(tx) ==
    LET InWindow(r) == r.date >= MaxDate(tx) - WindowDays
        recent == SelectSeq(tx, InWindow)
    IN  IF recent = <<>> THEN tx ELSE recent

total_spent_of(recent) == SumAmounts(SelectSeq(recent, Positive))
\* Mutant: the sum of the negative amounts not negated.
total_saved_signed(recent) == SumAmounts(SelectSeq(recent, Negative))
total_saved_of(recent) == 0 - SumAmounts(SelectSeq(recent, Negative))

\* Every text summarize_budget may return (the order of equal category sums
\* is the sort's choice).  Money of avg_daily is in paise.
summarize_budget(tx) ==
    IF tx = <<>> THEN {[text |-> "No transactions to summarize."]}
    ELSE LET recent == recent_window(tx)
             total_spent == total_spent_of(recent)
             total_saved == total_saved_of(recent)
             by_cat == groupby_sum(recent)
             days == Max(1, MaxDate(recent) - MinDate(recent))
         IN  {[text |-> "Budget Summary",
               period |-> <<MinDate(recent), MaxDate(recent)>>,
               total_spent |-> total_spent,
               total_saved |-> total_saved,
               top |-> [i \in 1..Len(order) |-> <<order[i], by_cat[order[i]]>>],
               avg_daily |-> RoundDiv(total_spent * 100, days),
               suggested_monthly |->
                   RoundDiv(total_spent * DaysPerMonth * ReductionPercent, days * 100)] :
                 order \in sort_desc_head(by_cat, {c \in DOMAIN by_cat : by_cat[c] > 0},
                                          TopExpenseCount)}

-----------------------------------------------------------------------------
(* generate_spending_insights *)

TopCount == 3
SubscriptionsLimit == 500
FoodLimit == 2000
TransportLimit == 1000

UserTypes == {"Student", "Professional"}

\* (top/total*100).round(1) in tenths of a percent.  pandas divides floats:
\* 0/0 raises nothing and gives NaN.
share(amt, total) ==
    IF total = 0 THEN [nan |-> TRUE, tenths |-> 0]
    ELSE [nan |-> FALSE, tenths |-> RoundDiv(amt * 1000, total)]

generate_spending_insights(tx, utype) ==
    IF tx = <<>> THEN {[text |-> "No transactions to analyze."]}
    ELSE LET by_cat == abs_series(groupby_sum(tx))
             total == SumAbsAmounts(tx)
             Over(c, limit) == c \in DOMAIN by_cat /\ by_cat[c] > limit
         IN  {[text |-> "Top Spending Categories",
               top |-> [i \in 1..Len(order) |->
                           [category |-> order[i], amount |-> by_cat[order[i]],
                            pct |-> share(by_cat[order[i]], total)]],
               advice |-> {c \in {"Subscriptions"} : Over(c, SubscriptionsLimit)}
                            \cup {c \in {"Food"} : Over(c, FoodLimit)}
                            \cup {c \in {"Transport"} : Over(c, TransportLimit)},
               closing |-> IF utype = "Student" THEN "emergency buffer"
                           ELSE "automate savings"] :
                 order \in sort_desc_head(by_cat, DOMAIN by_cat, TopCount)}

-----------------------------------------------------------------------------
(* generate_tax_guidance, format_response_for_tone *)

generate_tax_guidance(utype) ==
    [text |-> "Tax Guidance",
     lines |-> IF utype = "Student" THEN <<"filing threshold", "educational receipts">>
               ELSE <<"salary components", "investment proofs">>,
     closing |-> "consult a professional"]

\* The greeting prefix and the body (textwrap.fill only re-breaks lines).
format_response_for_tone(body, utype, complexity) ==
    LET resolved == IF complexity = "Auto"
                    THEN (IF utype = "Student" THEN "Simple" ELSE "Detailed")
                    ELSE complexity
    IN  [prefix |-> IF resolved = "Simple" THEN "Hey! Here's a simple version:"
                    ELSE "Hello - advisory:",
         body |-> body]

-----------------------------------------------------------------------------
(* local_ai_response *)

UpperCase == <<"A", "B", "C", "D", "E", "F", "G", "H", "I", "J", "K", "L", "M",
               "N", "O", "P", "Q", "R", "S", "T", "U", "V", "W", "X", "Y", "Z">>
LowerCase == <<"a", "b", "c", "d", "e", "f", "g", "h", "i", "j", "k", "l", "m",
               "n", "o", "p", "q", "r", "s", "t", "u", "v", "w", "x", "y", "z">>

\* str.lower(), character by character.
lower(m) ==
    [i \in 1..Len(m) |->
        IF \E j \in 1..Len(UpperCase) : UpperCase[j] = m[i]
        THEN LowerCase[CHOOSE j \in 1..Len(UpperCase) : UpperCase[j] = m[i]]
        ELSE m[i]]

\* k in m, for strings.
Contains(m, k) ==
    \E i \in 1..(Len(m) - Len(k) + 1) : SubSeq(m, i, i + Len(k) - 1) = k

KwBudget == <<"b", "u", "d", "g", "e", "t">>
KwSpend == <<"s", "p", "e", "n", "d">>
KwInsights == <<"i", "n", "s", "i", "g", "h", "t", "s">>
KwSave == <<"s", "a", "v", "e">>
KwTax == <<"t", "a", "x">>
KwInvest == <<"i", "n", "v", "e", "s", "t">>
KwSip == <<"s", "i", "p">>

InvestmentTips == [text |-> "General investment advice"]
HelpMessage ==
    [text |-> "I can assist with budget, spending insights, tax basics, or investment tips."]

\* Mutant: the spending rule tried before the budget rule.
local_ai_response_spend_first(message, budget, spending, tax) ==
    LET m == lower(message)
    IN  IF \E k \in {KwSpend, KwInsights, KwSave} : Contains(m, k)
        THEN [generator |-> "Spending Insights", body |-> spending]
        ELSE IF Contains(m, KwBudget) THEN [generator |-> "Budget Summary", body |-> budget]
        ELSE IF Contains(m, KwTax) THEN [generator |-> "Tax Guidance", body |-> tax]
        ELSE IF \E k \in {KwInvest, KwSip} : Contains(m, k)
             THEN [generator |-> "Investment Tips", body |-> InvestmentTips]
        ELSE [generator |-> "help", body |-> HelpMessage]

\* The generator chosen and its text; budget, spending and tax are what
\* summarize_budget, generate_spending_insights and generate_tax_guidance return.
local_ai_response(message, budget, spending, tax) ==
    LET m == lower(message)
    IN  IF Contains(m, KwBudget) THEN [generator |-> "Budget Summary", body |-> budget]
        ELSE IF \E k \in {KwSpend, KwInsights, KwSave} : Contains(m, k)
             THEN [generator |-> "Spending Insights", body |-> spending]
        ELSE IF Contains(m, KwTax) THEN [generator |-> "Tax Guidance", body |-> tax]
        ELSE IF \E k \in {KwInvest, KwSip} : Contains(m, k)
             THEN [generator |-> "Investment Tips", body |-> InvestmentTips]
        ELSE [generator |-> "help", body |-> HelpMessage]

-----------------------------------------------------------------------------
(* The Streamlit script: one action per kind of run *)

\* A tab no run has rendered yet.
NotRendered == [text |-> None]

Greeting == [role |-> "assistant", text |-> "Hi! I'm your Personal Finance Assistant."]

\* Mutant: a failed parse leaves the checkbox to decide.
initial_transactions_checkbox(up, us) ==
    IF up.present /\ parse_transactions(up).ok THEN parse_transactions(up).df
    ELSE IF us THEN load_sample_transactions ELSE <<>>

\* The list a fresh session starts from.
initial_transactions(up, us) ==
    IF up.present
    THEN (LET p == parse_transactions(up) IN IF p.ok THEN p.df ELSE load_sample_transactions)
    ELSE IF us THEN load_sample_transactions ELSE <<>>

\* Mutant: the new record put first.
add_tx_first(tx, d, cat, amt) == <<Row(to_datetime(d).day, cat, amt, "")>> \o tx

\* pd.concat([transactions, pd.DataFrame([new])], ignore_index=True)
add_tx(tx, d, cat, amt) == tx \o <<Row(to_datetime(d).day, cat, amt, "")>>

\* Files a session may be opened with: no row or any one row under the full
\* header, one good row under every header, and an unreadable file.
GoodRow == [date |-> "2025-08-01", category |-> "Food", amount |-> "100", description |-> "x"]
SessionFiles ==
    {File(TRUE, AllColumns, rs) : rs \in {<<>>} \cup {<<r>> : r \in RawRows}}
        \cup {File(TRUE, cs, <<GoodRow>>) : cs \in ColumnSets}
        \cup {File(FALSE, {}, <<>>)}

AddDates == {"2025-09-19", "2025-06-21"}
AddCategories == {"Misc", "Bills"}
AddAmounts == {0, 3000, 0 - 2500}

TextBudget == <<"M", "y", " ">> \o KwBudget
TextHello == <<"h", "e", "l", "l", "o">>
ChatTexts == {TextBudget, TextHello}

Init ==
    /\ uploaded = NoFile
    /\ use_sample = TRUE
    /\ initialised = FALSE
    /\ transactions = <<>>
    /\ messages = <<>>
    /\ summary = NotRendered
    /\ insights = NotRendered
    /\ steps = 0
    /\ parsed = Pending
    /\ user_type = "Student"    \* the selectbox shows its first option
    /\ msg = <<>>
    /\ routed = None

\* The tabs of a run over the list tx.
Render(tx) ==
    /\ summary' \in summarize_budget(tx)
    /\ insights' \in generate_spending_insights(tx, user_type)

\* A run of the script with no form submitted, the sidebar showing file up and
\* checkbox us.
Run(up, us) ==
    /\ IF initialised
       THEN UNCHANGED <<uploaded, use_sample, transactions, parsed>>
       ELSE /\ uploaded' = up
            /\ use_sample' = us
            /\ parsed' = (IF up.present THEN parse_transactions(up) ELSE parsed)
            /\ transactions' = initial_transactions(up, us)
    /\ initialised' = TRUE
    /\ messages' = (IF messages = <<>> THEN <<Greeting>> ELSE messages)
    /\ Render(transactions')
    /\ UNCHANGED <<steps, user_type, msg, routed>>

\* The add_tx form submitted, and the rerun it asks for.
AddTransaction(d, cat, amt) ==
    /\ initialised
    /\ steps < MaxSteps
    /\ transactions' = add_tx(transactions, d, cat, amt)
    /\ steps' = steps + 1
    /\ Render(transactions')
    /\ UNCHANGED <<uploaded, use_sample, initialised, messages, parsed, user_type,
                   msg, routed>>

\* The chat form submitted with a non-empty text, and the rerun it asks for.
\* The sidebar's response complexity stays at its default, "Auto".
SendChat(text) ==
    /\ initialised
    /\ steps < MaxSteps
    /\ text # <<>>
    /\ Render(transactions)
    /\ LET resp == local_ai_response(text, summary', insights',
                                     generate_tax_guidance(user_type))
       IN  /\ routed' = resp.generator
           /\ messages' = messages \o
                <<[role |-> "user", text |-> text],
                  [role |-> "assistant",
                   text |-> format_response_for_tone(resp.body, user_type, "Auto")]>>
    /\ msg' = text
    /\ steps' = steps + 1
    /\ UNCHANGED <<uploaded, use_sample, initialised, transactions, parsed, user_type>>

\* The first run of a session.
PageLoad(up, us) == ~initialised /\ Run(up, us)

\* A later run, after a sidebar widget changed.
Rerun(up, us) == initialised /\ Run(up, us)

\* What the uploader may be changed to in a running session.
ChangedFiles == {NoFile, File(TRUE, AllColumns, <<GoodRow>>)}

Next ==
    \/ \E up \in SessionFiles \cup {NoFile}, us \in BOOLEAN : PageLoad(up, us)
    \/ \E up \in ChangedFiles : Rerun(up, up.present)
    \/ \E d \in AddDates, cat \in AddCategories, amt \in AddAmounts :
            AddTransaction(d, cat, amt)
    \/ \E text \in ChatTexts : SendChat(text)

Spec == Init /\ [][Next]_vars

-----------------------------------------------------------------------------
(* parse_transactions applied to every bounded file *)

InitParse ==
    /\ uploaded \in Files
    /\ parsed = Pending
    /\ use_sample = TRUE
    /\ initialised = FALSE
    /\ transactions = <<>>
    /\ messages = <<>>
    /\ summary = NotRendered
    /\ insights = NotRendered
    /\ steps = 0
    /\ user_type = "Student"
    /\ msg = <<>>
    /\ routed = None

Parse ==
    /\ parsed = Pending
    /\ parsed' = parse_transactions(uploaded)
    /\ UNCHANGED <<uploaded, use_sample, initialised, transactions, messages,
                   summary, insights, steps, user_type, msg, routed>>

SpecParse == InitParse /\ [][Parse]_vars

-----------------------------------------------------------------------------
(* local_ai_response applied to every bounded text *)

Fragments ==
    { KwBudget, KwSpend, KwInsights, KwTax, KwInvest, KwSip, TextHello,
      <<"B", "U", "D", "G", "E", "T">>, <<"S", "a", "v", "e">>, <<" ", "a", "n", "d", " ">>,
      <<"b", "u", "d">>, <<"g", "e", "t">>, <<"g", "o", "s">> }

RECURSIVE Flatten(_)
Flatten(ss) == IF ss = <<>> THEN <<>> ELSE Head(ss) \o Flatten(Tail(ss))

ExampleBudgetAndSpend == <<"w", "h", "a", "t", "'", "s", " ", "m", "y", " ", "b", "u", "d", "g", "e", "t", " ", "a", "n", "d", " ", "s", "p", "e", "n", "d">>
ExampleInvestmentSip == <<"i", "n", "v", "e", "s", "t", "m", "e", "n", "t", " ", "s", "i", "p", " ", "a", "d", "v", "i", "c", "e">>

RouterTexts ==
    {Flatten(fs) : fs \in SeqsUpTo(Fragments, MaxFragments)}
        \cup {ExampleBudgetAndSpend, ExampleInvestmentSip}

InitRouter ==
    /\ msg \in RouterTexts
    /\ routed = None
    /\ user_type \in UserTypes
    /\ uploaded = NoFile
    /\ use_sample = TRUE
    /\ initialised = FALSE
    /\ transactions = load_sample_transactions
    /\ messages = <<>>
    /\ summary = NotRendered
    /\ insights = NotRendered
    /\ steps = 0
    /\ parsed = Pending

Route ==
    /\ routed = None
    /\ \E budget \in summarize_budget(transactions),
          spending \in generate_spending_insights(transactions, user_type) :
            routed' = local_ai_response(msg, budget, spending,
                                        generate_tax_guidance(user_type)).generator
    /\ UNCHANGED <<uploaded, use_sample, initialised, transactions, messages,
                   summary, insights, steps, parsed, user_type, msg>>

SpecRouter == InitRouter /\ [][Route]_vars

-----------------------------------------------------------------------------
(* Properties *)

IsPrefix(a, b) == Len(a) <= Len(b) /\ SubSeq(b, 1, Len(a)) = a

RECURSIVE SumOver(_, _)
\* Sum of the amounts of the rows of tx at the indices I.
SumOver(tx, I) ==
    IF I = {} THEN 0
    ELSE LET i == CHOOSE j \in I : TRUE IN tx[i].amount + SumOver(tx, I \ {i})

RECURSIVE SumSeries(_, _)
\* Sum of the values of series s at the labels L.
SumSeries(s, L) ==
    IF L = {} THEN 0
    ELSE LET c == CHOOSE d \in L : TRUE IN s[c] + SumSeries(s, L \ {c})

\* Indices of the rows dated within WindowDays of the latest date.
InWindowIdx(tx) ==
    {i \in 1..Len(tx) : \A j \in 1..Len(tx) : tx[i].date >= tx[j].date - WindowDays}

Matches(m, kws) == \E k \in kws : Contains(lower(m), k)

\* C1: local_ai_response lower-cases the text and picks the generator of the
\* first rule that matches, in the order budget; spend, insights or save; tax;
\* invest or sip; help.  The spec's three example texts route to Budget
\* Summary, Investment Tips and help.
C1_FirstMatchRouting ==
    routed # None =>
        /\ routed = (IF Matches(msg, {KwBudget}) THEN "Budget Summary"
                     ELSE IF Matches(msg, {KwSpend, KwInsights, KwSave})
                          THEN "Spending Insights"
                     ELSE IF Matches(msg, {KwTax}) THEN "Tax Guidance"
                     ELSE IF Matches(msg, {KwInvest, KwSip}) THEN "Investment Tips"
                     ELSE "help")
        /\ (msg = ExampleBudgetAndSpend => routed = "Budget Summary")
        /\ (msg = ExampleInvestmentSip => routed = "Investment Tips")
        /\ (msg = TextHello => routed = "help")
        /\ (msg = <<"B", "U", "D", "G", "E", "T">> \o KwSpend => routed = "Budget Summary")

\* A text matching the spend rule and the budget rule at once has been routed.
C1_Witness ==
    /\ routed = "Budget Summary"
    /\ Matches(msg, {KwSpend, KwInsights, KwSave})
    /\ msg # lower(msg)

\* C2: once the session list exists, every step leaves it as a prefix of the
\* new list; a step that lengthens it is an Add Transaction submission and
\* appends exactly one record, the submitted one, at the end.
C2_AppendOnly ==
    [][initialised =>
          /\ IsPrefix(transactions, transactions')
          /\ (transactions' # transactions =>
                /\ Len(transactions') = Len(transactions) + 1
                /\ messages' = messages
                /\ \E d \in AddDates, cat \in AddCategories, amt \in AddAmounts :
                      transactions'[Len(transactions')] = Row(DayOf[d], cat, amt, ""))]_vars

\* A session that loaded the sample has taken one Add Transaction and one chat message.
C2_Witness ==
    /\ initialised
    /\ Len(messages) = 3
    /\ Len(transactions) = Len(load_sample_transactions) + 1
    /\ IsPrefix(load_sample_transactions, transactions)

\* The rows of a file whose date and amount both coerce, in file order.
CoercibleRows(file) ==
    LET Good(r) == /\ read_cell(file, r, "date") \in DOMAIN DayOf
                   /\ to_numeric(read_cell(file, r, "amount")).kind = "ok"
        Cleaned(r) == Row(DayOf[r.date], read_cell(file, r, "category"),
                          to_numeric(r.amount).value, read_cell(file, r, "description"))
        good == SelectSeq(file.rows, Good)
    IN  [i \in 1..Len(good) |-> Cleaned(good[i])]

\* C3: for a table with the required columns parse_transactions returns exactly
\* the rows whose amount and date both coerce, in order, and raises nothing
\* because of a row.
C3_DropsExactlyBadRows ==
    (parsed # Pending /\ uploaded.readable /\ required \subseteq uploaded.columns) =>
        /\ parsed.ok
        /\ parsed.df = CoercibleRows(uploaded)

\* C3, the part the code keeps: when no date cell is unparsable text, the rows
\* with a missing date or a non-numeric amount are dropped and the rest kept.
C3_DropsWhenDatesParse ==
    (/\ parsed # Pending /\ uploaded.readable /\ required \subseteq uploaded.columns
     /\ \A i \in 1..Len(uploaded.rows) : uploaded.rows[i].date # "notadate") =>
        /\ parsed.ok
        /\ parsed.df = CoercibleRows(uploaded)

\* C4: a table lacking one of date, category, amount makes parse_transactions
\* raise the schema error to its caller; no rows come back and the session
\* takes none of the table's rows.
C4_SchemaError ==
    (/\ parsed # Pending
     /\ uploaded.present /\ uploaded.readable
     /\ ~(required \subseteq uploaded.columns)) =>
        /\ parsed = Raise("ValueError")
        /\ (initialised =>
              /\ IsPrefix(load_sample_transactions, transactions)
              /\ \A i \in 1..Len(transactions) :
                    transactions[i].description \notin {"x", NaN})

\* A session was opened with a file that has rows but no category column.
C4_Witness ==
    /\ initialised
    /\ uploaded.present /\ uploaded.readable
    /\ "category" \notin uploaded.columns
    /\ uploaded.rows # <<>>
    /\ parsed.error = "ValueError"

\* C5: the per-category signed sums of the session list add up to the sum of
\* all its amounts.
C5_GroupSumsAddUp ==
    initialised =>
        LET by_cat == groupby_sum(transactions)
        IN  SumSeries(by_cat, DOMAIN by_cat) = SumAmounts(transactions)

\* C5, the part the code keeps: the sums add up when every row has a category.
C5_GroupSumsOfLabelledRows ==
    (initialised /\ \A i \in 1..Len(transactions) : transactions[i].category # NaN) =>
        LET by_cat == groupby_sum(transactions)
        IN  SumSeries(by_cat, DOMAIN by_cat) = SumAmounts(transactions)

\* C6: the recent window of a non-empty list is non-empty, holds only rows of
\* the list, and holds every row dated at the latest date; the Budget tab's
\* period ends at that date.
C6_WindowNonEmpty ==
    (initialised /\ transactions # <<>>) =>
        LET recent == recent_window(transactions)
        IN  /\ recent # <<>>
            /\ Len(recent) <= Len(transactions)
            /\ \A i \in 1..Len(recent) :
                   \E j \in 1..Len(transactions) : transactions[j] = recent[i]
            /\ \A j \in 1..Len(transactions) :
                   (\A k \in 1..Len(transactions) :
                        transactions[k].date <= transactions[j].date)
                     => \E i \in 1..Len(recent) : recent[i] = transactions[j]
            /\ summary.period[2] = MaxDate(transactions)

\* The window of the session list leaves out some rows and keeps others.
C6_Witness ==
    /\ initialised
    /\ transactions # <<>>
    /\ Len(recent_window(transactions)) < Len(transactions)
    /\ Len(recent_window(transactions)) > 1

\* C7: the Budget tab reports as total spend the sum of the positive amounts
\* dated within 30 days of the latest date, as total saved the negated sum of
\* the negative ones, both non-negative; on the sample these are 4969 and 7000.
C7_BudgetTotals ==
    (initialised /\ transactions # <<>>) =>
        LET W == InWindowIdx(transactions)
        IN  /\ summary.total_spent =
                  SumOver(transactions, {i \in W : transactions[i].amount > 0})
            /\ summary.total_saved =
                  0 - SumOver(transactions, {i \in W : transactions[i].amount < 0})
            /\ summary.total_spent >= 0
            /\ summary.total_saved >= 0
            /\ (transactions = load_sample_transactions =>
                    summary.total_spent = 4969 /\ summary.total_saved = 7000)

\* The Budget tab shows spend and savings of a window that leaves rows out, one of
\* them a zero amount inside the window.
C7_Witness ==
    /\ initialised
    /\ transactions # <<>>
    /\ InWindowIdx(transactions) # 1..Len(transactions)
    /\ \E i \in InWindowIdx(transactions) : transactions[i].amount = 0
    /\ summary.total_spent > 0
    /\ summary.total_saved > 0

\* The ranking part of C8: at most TopCount categories, in descending order of
\* absolute total, none of the others larger than a reported one.
Ranked(tx, top) ==
    LET by_cat == [c \in {tx[i].category : i \in 1..Len(tx)} \ {NaN} |->
                      Abs(SumOver(tx, {i \in 1..Len(tx) : tx[i].category = c}))]
        reported == {top[i].category : i \in 1..Len(top)}
    IN  /\ Len(top) <= TopCount
        /\ Cardinality(reported) = Len(top)
        /\ reported \subseteq DOMAIN by_cat
        /\ Len(top) < TopCount => reported = DOMAIN by_cat
        /\ \A i \in 1..Len(top) : top[i].amount = by_cat[top[i].category]
        /\ \A i \in 1..Len(top), j \in 1..Len(top) :
               i < j => top[i].amount >= top[j].amount
        /\ \A c \in DOMAIN by_cat \ reported, i \in 1..Len(top) :
               by_cat[c] <= top[i].amount

\* C8: for a non-empty list the Insights tab reports the top categories by
\* absolute total, ranked, each with its share of the total absolute spend; on
\* the sample these are Savings 5000, Bills 2200, Investment 2000.
C8_TopThreeWithShares ==
    (initialised /\ transactions # <<>>) =>
        /\ Ranked(transactions, insights.top)
        /\ \A i \in 1..Len(insights.top) :
              /\ ~insights.top[i].pct.nan
              /\ SumAbsAmounts(transactions) > 0
              /\ insights.top[i].pct.tenths =
                    RoundDiv(insights.top[i].amount * 1000, SumAbsAmounts(transactions))
        /\ (transactions = load_sample_transactions =>
               [i \in 1..3 |-> <<insights.top[i].category, insights.top[i].amount>>]
                   = << <<"Savings", 5000>>, <<"Bills", 2200>>, <<"Investment", 2000>> >>)

\* C8, the part the code keeps: the ranking, and the sample's ranking.
C8_RankingOnly ==
    (initialised /\ transactions # <<>>) =>
        /\ Ranked(transactions, insights.top)
        /\ (transactions = load_sample_transactions =>
               [i \in 1..3 |-> <<insights.top[i].category, insights.top[i].amount>>]
                   = << <<"Savings", 5000>>, <<"Bills", 2200>>, <<"Investment", 2000>> >>)

\* C9: both tabs always show a defined text, computed without a division by
\* zero, and the placeholders on the empty list.
C9_GeneratorsTotal ==
    initialised =>
        /\ summary.text \in {"Budget Summary", "No transactions to summarize."}
        /\ insights.text \in {"Top Spending Categories", "No transactions to analyze."}
        /\ (transactions = <<>> =>
               /\ summary = [text |-> "No transactions to summarize."]
               /\ insights = [text |-> "No transactions to analyze."])
        /\ (transactions # <<>> =>
               /\ summary.text = "Budget Summary"
               /\ insights.text = "Top Spending Categories"
               /\ \A i \in 1..Len(insights.top) : ~insights.top[i].pct.nan)

\* C9, the part the code keeps: a text always comes back, the placeholders on
\* the empty list.
C9_TextAlwaysReturned ==
    initialised =>
        /\ (transactions = <<>> =>
               /\ summary = [text |-> "No transactions to summarize."]
               /\ insights = [text |-> "No transactions to analyze."])
        /\ (transactions # <<>> =>
               /\ summary.text = "Budget Summary"
               /\ insights.text = "Top Spending Categories")

\* C10: when the file present at session initialisation fails to parse, for
\* whatever reason and whatever the checkbox, the session list becomes exactly
\* the sample and the tabs show the sample's reports, no error in their place.
C10_FallbackToSample ==
    [][(~initialised /\ initialised' /\ uploaded'.present /\ ~parsed'.ok) =>
          /\ transactions' = load_sample_transactions
          /\ summary' \in summarize_budget(load_sample_transactions)
          /\ insights'.text = "Top Spending Categories"
          /\ Len(insights'.top) = TopCount]_vars

\* A session opened with the checkbox off and a file whose date cell does not parse.
C10_Witness ==
    /\ initialised
    /\ steps = 0
    /\ ~use_sample
    /\ uploaded.present /\ uploaded.readable /\ required \subseteq uploaded.columns
    /\ parsed.error = "DateParseError"
    /\ transactions = load_sample_transactions

====
